---- MODULE Spec2Model ----
(***************************************************************************)
(* The stock pipelines of week_1.py and week_2.py: get_s3_data reads raw   *)
(* rows and parses each with Stock.from_list, process_data reduces the     *)
(* list to the Aggregation of the highest 'high', put_redis_data and       *)
(* put_s3_data persist it.                                                 *)
(*                                                                         *)
(* Text is a sequence of one-character strings.  A float is a record       *)
(* [cls, t]: cls = "fin" with t the value in tenths, cls = "nan", or       *)
(* cls = "inf" with t the sign.  A datetime is [year, month, day] (the     *)
(* format %Y/%m/%d leaves the time at midnight).                           *)
(***************************************************************************)
EXTENDS Integers, Sequences, FiniteSets

\* Largest number of rows in the source of a run.
MaxRows == 3

---------------------------------------------------------------------------
\* Python values and conversions used by Stock.from_list

None == <<>>
Some(x) == <<x>>

Raise(e) == [err |-> e, v |-> None]
Return(x) == [err |-> "", v |-> x]

Digits == {"0", "1", "2", "3", "4", "5", "6", "7", "8", "9"}

DigitVal(c) ==
    CASE c = "0" -> 0 [] c = "1" -> 1 [] c = "2" -> 2 [] c = "3" -> 3
      [] c = "4" -> 4 [] c = "5" -> 5 [] c = "6" -> 6 [] c = "7" -> 7
      [] c = "8" -> 8 [] c = "9" -> 9

IsDigits(s) == \A i \in 1..Len(s) : s[i] \in Digits

RECURSIVE NatOf(_)
NatOf(s) ==
    IF s = <<>> THEN 0
    ELSE NatOf(SubSeq(s, 1, Len(s) - 1)) * 10 + DigitVal(s[Len(s)])

Fin(t) == [cls |-> "fin", t |-> t]
NaN == [cls |-> "nan", t |-> 0]
Inf(sign) == [cls |-> "inf", t |-> sign]

\* Position of the first "." of s, or Len(s) + 1.
DotPos(s) ==
    IF \E i \in 1..Len(s) : s[i] = "."
    THEN CHOOSE i \in 1..Len(s) : s[i] = "." /\ \A j \in 1..(i - 1) : s[j] # "."
    ELSE Len(s) + 1

\* float(text) for an unsigned body: digits, digits "." digits, "nan", "inf".
\* The value is kept to one decimal place.
FloatBody(s, sign) ==
    LET p == DotPos(s)
        whole == SubSeq(s, 1, p - 1)
        frac == SubSeq(s, p + 1, Len(s))
    IN  IF s = <<"n", "a", "n">> THEN Return(NaN)
        ELSE IF s = <<"i", "n", "f">> THEN Return(Inf(sign))
        ELSE IF /\ IsDigits(whole) /\ IsDigits(frac)
                /\ Len(whole) + Len(frac) > 0
             THEN Return(Fin(sign * (NatOf(whole) * 10
                         + (IF frac = <<>> THEN 0 ELSE DigitVal(frac[1])))))
             ELSE Raise("ValueError")

\* float(text)
float(s) ==
    IF s # <<>> /\ s[1] \in {"-", "+"}
    THEN FloatBody(Tail(s), IF s[1] = "-" THEN -1 ELSE 1)
    ELSE FloatBody(s, 1)

\* Variant of int: rounds down instead of towards zero.
int_floor(x) ==
    IF x.cls = "nan" THEN Raise("ValueError")
    ELSE IF x.cls = "inf" THEN Raise("OverflowError")
    ELSE Return(x.t \div 10)

\* int(x) of a float x rounds towards zero; nan and inf have no integer.
int(x) ==
    IF x.cls = "nan" THEN Raise("ValueError")
    ELSE IF x.cls = "inf" THEN Raise("OverflowError")
    ELSE Return(IF x.t >= 0 THEN x.t \div 10 ELSE -((-x.t) \div 10))

IsLeap(y) == (y % 4 = 0 /\ y % 100 # 0) \/ y % 400 = 0

DaysIn(y, m) ==
    IF m = 2 THEN (IF IsLeap(y) THEN 29 ELSE 28)
    ELSE IF m \in {4, 6, 9, 11} THEN 30 ELSE 31

\* datetime.strptime(text, "%Y/%m/%d"): four digits, "/", one or two digits,
\* "/", one or two digits, and the date must exist.
strptime(s) ==
    LET rest == SubSeq(s, 6, Len(s))
        q == IF \E i \in 1..Len(rest) : rest[i] = "/"
             THEN CHOOSE i \in 1..Len(rest) :
                      rest[i] = "/" /\ \A j \in 1..(i - 1) : rest[j] # "/"
             ELSE 0
        ytxt == SubSeq(s, 1, 4)
        mtxt == SubSeq(rest, 1, q - 1)
        dtxt == SubSeq(rest, q + 1, Len(rest))
    IN  IF /\ Len(s) >= 8
           /\ IsDigits(ytxt)
           /\ s[5] = "/"
           /\ q > 0
           /\ Len(mtxt) \in {1, 2} /\ IsDigits(mtxt)
           /\ Len(dtxt) \in {1, 2} /\ IsDigits(dtxt)
           /\ NatOf(ytxt) >= 1
           /\ NatOf(mtxt) \in 1..12
           /\ NatOf(dtxt) \in 1..DaysIn(NatOf(ytxt), NatOf(mtxt))
        THEN Return([year |-> NatOf(ytxt), month |-> NatOf(mtxt),
                     day |-> NatOf(dtxt)])
        ELSE Raise("ValueError")

\* input_list[i] (0-based i) of a row
Item(row, i) == IF i + 1 <= Len(row) THEN Return(row[i + 1]) ELSE Raise("IndexError")

\* f(input_list[i]): the subscript is evaluated first, then the conversion.
DateAt(row, i) == IF Item(row, i).err # "" THEN Item(row, i) ELSE strptime(row[i + 1])
FloatAt(row, i) == IF Item(row, i).err # "" THEN Item(row, i) ELSE float(row[i + 1])
IntAt(row, i) ==
    IF FloatAt(row, i).err # "" THEN FloatAt(row, i) ELSE int(FloatAt(row, i).v)

\* Variant of from_list: reads the fields in the order open, high, low,
\* close, volume.
from_list_ohlcv(input_list) ==
    LET args == << DateAt(input_list, 0), FloatAt(input_list, 1),
                   FloatAt(input_list, 2), FloatAt(input_list, 3),
                   FloatAt(input_list, 4), IntAt(input_list, 5) >>
    IN  IF \E k \in 1..6 : args[k].err # ""
        THEN Raise(args[CHOOSE k \in 1..6 :
                   args[k].err # "" /\ \A j \in 1..(k - 1) : args[j].err = ""].err)
        ELSE Return([date |-> args[1].v, open |-> args[2].v,
                     high |-> args[3].v, low |-> args[4].v,
                     close |-> args[5].v, volume |-> args[6].v])

\* Stock.from_list: the keyword arguments are evaluated in the order written,
\* so the first one that raises decides the error.
from_list(input_list) ==
    LET args == << DateAt(input_list, 0), FloatAt(input_list, 1),
                   IntAt(input_list, 2), FloatAt(input_list, 3),
                   FloatAt(input_list, 4), FloatAt(input_list, 5) >>
    IN  IF \E k \in 1..6 : args[k].err # ""
        THEN Raise(args[CHOOSE k \in 1..6 :
                   args[k].err # "" /\ \A j \in 1..(k - 1) : args[j].err = ""].err)
        ELSE Return([date |-> args[1].v, close |-> args[2].v,
                     volume |-> args[3].v, open |-> args[4].v,
                     high |-> args[5].v, low |-> args[6].v])

\* str(x) of a float and of a datetime
DigitChar(n) ==
    CASE n = 0 -> "0" [] n = 1 -> "1" [] n = 2 -> "2" [] n = 3 -> "3"
      [] n = 4 -> "4" [] n = 5 -> "5" [] n = 6 -> "6" [] n = 7 -> "7"
      [] n = 8 -> "8" [] n = 9 -> "9"

RECURSIVE NatStr(_)
NatStr(n) ==
    IF n < 10 THEN <<DigitChar(n)>>
    ELSE NatStr(n \div 10) \o <<DigitChar(n % 10)>>

Pad2(n) == <<DigitChar((n \div 10) % 10), DigitChar(n % 10)>>

StrFloat(x) ==
    LET a == IF x.t < 0 THEN -x.t ELSE x.t
        sgn == IF x.t < 0 THEN <<"-">> ELSE <<>>
    IN  IF x.cls = "nan" THEN <<"n", "a", "n">>
        ELSE IF x.cls = "inf" THEN sgn \o <<"i", "n", "f">>
        ELSE sgn \o NatStr(a \div 10) \o <<".", DigitChar(a % 10)>>

StrDate(d) ==
    Pad2(d.year \div 100) \o Pad2(d.year % 100) \o <<"-">> \o Pad2(d.month)
      \o <<"-">> \o Pad2(d.day)
      \o <<" ", "0", "0", ":", "0", "0", ":", "0", "0">>

\* a > b on floats: every comparison with nan is false.
FloatGT(a, b) ==
    /\ a.cls # "nan"
    /\ b.cls # "nan"
    /\ CASE a.cls = "inf" /\ b.cls = "inf" -> a.t > b.t
         [] a.cls = "inf" /\ b.cls # "inf" -> a.t > 0
         [] a.cls # "inf" /\ b.cls = "inf" -> b.t < 0
         [] OTHER -> a.t > b.t

FloatGE(a, b) ==
    /\ a.cls # "nan"
    /\ b.cls # "nan"
    /\ ~FloatGT(b, a)

\* a == b on floats
FloatEQ(a, b) == FloatGE(a, b) /\ FloatGE(b, a)

---------------------------------------------------------------------------
\* The raw rows a source is made of

\* 2024/01/02,100.0,500000.0,99.0,105.0,98.0
Row1 ==
    << <<"2", "0", "2", "4", "/", "0", "1", "/", "0", "2">>,
       <<"1", "0", "0", ".", "0">>,
       <<"5", "0", "0", "0", "0", "0", ".", "0">>,
       <<"9", "9", ".", "0">>,
       <<"1", "0", "5", ".", "0">>,
       <<"9", "8", ".", "0">> >>

\* 2024/01/03,106.0,1200.9,104.0,110.0,101.5
Row2 ==
    << <<"2", "0", "2", "4", "/", "0", "1", "/", "0", "3">>,
       <<"1", "0", "6", ".", "0">>,
       <<"1", "2", "0", "0", ".", "9">>,
       <<"1", "0", "4", ".", "0">>,
       <<"1", "1", "0", ".", "0">>,
       <<"1", "0", "1", ".", "5">> >>

\* 2024/1/4,102.0,300,101.0,103.0,100.0,x (a seventh field)
Row3 ==
    << <<"2", "0", "2", "4", "/", "1", "/", "4">>,
       <<"1", "0", "2", ".", "0">>,
       <<"3", "0", "0">>,
       <<"1", "0", "1", ".", "0">>,
       <<"1", "0", "3", ".", "0">>,
       <<"1", "0", "0", ".", "0">>,
       <<"x">> >>

\* 2024/01/05,108.0,7.0,107.0,110.0,106.0 (the high of Row2 again)
Row4 ==
    << <<"2", "0", "2", "4", "/", "0", "1", "/", "0", "5">>,
       <<"1", "0", "8", ".", "0">>,
       <<"7", ".", "0">>,
       <<"1", "0", "7", ".", "0">>,
       <<"1", "1", "0", ".", "0">>,
       <<"1", "0", "6", ".", "0">> >>

\* 2024/01/08,abc,10.0,1.0,120.0,1.0
RowBadClose ==
    << <<"2", "0", "2", "4", "/", "0", "1", "/", "0", "8">>,
       <<"a", "b", "c">>,
       <<"1", "0", ".", "0">>,
       <<"1", ".", "0">>,
       <<"1", "2", "0", ".", "0">>,
       <<"1", ".", "0">> >>

\* 2024/02/30,1.0,10.0,1.0,120.0,1.0 (no such day)
RowBadDate ==
    << <<"2", "0", "2", "4", "/", "0", "2", "/", "3", "0">>,
       <<"1", ".", "0">>,
       <<"1", "0", ".", "0">>,
       <<"1", ".", "0">>,
       <<"1", "2", "0", ".", "0">>,
       <<"1", ".", "0">> >>

\* 2024/01/09,1.0,10.0,1.0,120.0 (five fields)
RowShort ==
    << <<"2", "0", "2", "4", "/", "0", "1", "/", "0", "9">>,
       <<"1", ".", "0">>,
       <<"1", "0", ".", "0">>,
       <<"1", ".", "0">>,
       <<"1", "2", "0", ".", "0">> >>

\* 2024/01/10,1.0,-0.5,1.0,nan,1.0
RowNaNHigh ==
    << <<"2", "0", "2", "4", "/", "0", "1", "/", "1", "0">>,
       <<"1", ".", "0">>,
       <<"-", "0", ".", "5">>,
       <<"1", ".", "0">>,
       <<"n", "a", "n">>,
       <<"1", ".", "0">> >>

\* 2024/01/11,90.0,-5.5,90.0,95.0,89.0
RowNegVolume ==
    << <<"2", "0", "2", "4", "/", "0", "1", "/", "1", "1">>,
       <<"9", "0", ".", "0">>,
       <<"-", "5", ".", "5">>,
       <<"9", "0", ".", "0">>,
       <<"9", "5", ".", "0">>,
       <<"8", "9", ".", "0">> >>

Rows == {Row1, Row2, Row3, Row4, RowBadClose, RowBadDate, RowShort,
         RowNaNHigh, RowNegVolume}

RECURSIVE SeqsUpTo(_, _)
SeqsUpTo(S, n) ==
    IF n = 0 THEN {<<>>}
    ELSE LET shorter == SeqsUpTo(S, n - 1)
         IN  shorter \cup {Append(q, x) : q \in shorter, x \in S}

\* What the source key names: nothing (None), or a sequence of raw rows.
Sources == {None} \cup {Some(rows) : rows \in SeqsUpTo(Rows, MaxRows)}

---------------------------------------------------------------------------
\* The resources the ops are bound to (workspaces.resources)

\* s3.get_data(key): the rows stored under the key.
get_data(src) ==
    IF src = None THEN Raise("SourceNotFoundError") ELSE Return(src[1])

\* open(file_name) of csv_helper
open_file(src) ==
    IF src = None THEN Raise("FileNotFoundError") ELSE Return(src[1])

\* A store after put(key, value): the key holds the value, the rest is kept.
Put(store, key, value) ==
    [k \in DOMAIN store \cup {key} |-> IF k = key THEN value ELSE store[k]]

\* redis.put_data(name, value); accepted tells whether the cache takes it.
redis_put_data(cache, name, value, accepted) ==
    IF accepted THEN Return(Put(cache, name, value)) ELSE Raise("WriteError")

\* s3.put_data(key_name, data)
s3_put_data(bucket, key_name, data, accepted) ==
    IF accepted THEN Return(Put(bucket, key_name, data)) ELSE Raise("WriteError")

Empty == [k \in {} |-> None]

\* A cache that earlier runs have written to.
Stale ==
    [k \in {StrDate([year |-> 2024, month |-> 1, day |-> 3]), <<"k">>}
       |-> <<"1", ".", "0">>]

---------------------------------------------------------------------------
\* The ops

\* week_1: list(csv_helper(file_name)) over the rows csv.reader yields
RECURSIVE csv_helper(_)
csv_helper(rows) ==
    IF rows = <<>> THEN Return(<<>>)
    ELSE LET first == from_list(Head(rows))
             rest == csv_helper(Tail(rows))
         IN  IF first.err # "" THEN Raise(first.err)
             ELSE IF rest.err # "" THEN Raise(rest.err)
             ELSE Return(<<first.v>> \o rest.v)

\* Variant of from_lists: leaves out the items that do not parse.
RECURSIVE from_lists_skip(_)
from_lists_skip(items) ==
    IF items = <<>> THEN Return(<<>>)
    ELSE LET first == from_list(Head(items))
             rest == from_lists_skip(Tail(items))
         IN  IF first.err # "" THEN rest
             ELSE Return(<<first.v>> \o rest.v)

\* week_2: [Stock.from_list(item) for item in ...]
RECURSIVE from_lists(_)
from_lists(items) ==
    IF items = <<>> THEN Return(<<>>)
    ELSE LET first == from_list(Head(items))
             rest == from_lists(Tail(items))
         IN  IF first.err # "" THEN Raise(first.err)
             ELSE IF rest.err # "" THEN Raise(rest.err)
             ELSE Return(<<first.v>> \o rest.v)

\* Variant of MaxIndex: keeps the lesser key.
RECURSIVE MaxIndex_min(_, _)
MaxIndex_min(stocks, n) ==
    IF n = 1 THEN 1
    ELSE LET held == MaxIndex_min(stocks, n - 1)
         IN  IF FloatGT(stocks[held].high, stocks[n].high) THEN n ELSE held

\* Variant of MaxIndex: an equal key replaces the held item too.
RECURSIVE MaxIndex_last(_, _)
MaxIndex_last(stocks, n) ==
    IF n = 1 THEN 1
    ELSE LET held == MaxIndex_last(stocks, n - 1)
         IN  IF FloatGE(stocks[n].high, stocks[held].high) THEN n ELSE held

\* Index of the item max() holds after the first n items, n >= 1: a later
\* item replaces the held one only if its key is greater.
RECURSIVE MaxIndex(_, _)
MaxIndex(stocks, n) ==
    IF n = 1 THEN 1
    ELSE LET held == MaxIndex(stocks, n - 1)
         IN  IF FloatGT(stocks[n].high, stocks[held].high) THEN n ELSE held

\* Variant of highest: a default item for an empty list.
highest_default(stocks) ==
    IF stocks = <<>>
    THEN Return([date |-> [year |-> 1, month |-> 1, day |-> 1], high |-> Fin(0)])
    ELSE Return(stocks[MaxIndex(stocks, Len(stocks))])

\* max(stocks, key = high)
highest(stocks) ==
    IF stocks = <<>> THEN Raise("ValueError")
    ELSE Return(stocks[MaxIndex(stocks, Len(stocks))])

\* variant  the pipeline run: week_1_pipeline or week_2_pipeline
\* source   what the s3_key of the run names
\* step     each op's state: pending, success or failure
\* error    the exception each failed op raised
\* stocks   the list get_s3_data returned, if it has
\* agg      the Aggregation process_data returned, if it has
\* redis    the cache: key -> value
\* s3       the objects put in the bucket: key -> data
\* puts     the put_data calls issued to each sink in the run
VARIABLES variant, source, step, error, stocks, agg, redis, s3, puts

vars == <<variant, source, step, error, stocks, agg, redis, s3, puts>>

Variants == {"week_1", "week_2"}

\* The ops of a pipeline and the ops each takes its input from.
Ops(v) ==
    IF v = "week_1" THEN {"get_s3_data", "process_data", "put_redis_data"}
    ELSE {"get_s3_data", "process_data", "put_redis_data", "put_s3_data"}

Upstream(op) ==
    CASE op = "get_s3_data" -> {}
      [] op = "process_data" -> {"get_s3_data"}
      [] op = "put_redis_data" -> {"process_data"}
      [] op = "put_s3_data" -> {"process_data"}

Init ==
    /\ variant \in Variants
    /\ source \in Sources
    /\ step = [op \in Ops(variant) |-> "pending"]
    /\ error = [op \in Ops(variant) |-> ""]
    /\ stocks = None
    /\ agg = None
    /\ redis \in {Empty, Stale}
    /\ s3 = Empty
    /\ puts = [sink \in {"redis", "s3"} |-> 0]

\* An op runs once, after every op it takes input from has succeeded.
Ready(v, op) ==
    /\ variant = v
    /\ step[op] = "pending"
    /\ \A up \in Upstream(op) : step[up] = "success"

\* The op ends: it succeeds, or fails with the exception it raised.
Ends(op, r) ==
    /\ step' = [step EXCEPT ![op] = IF r.err = "" THEN "success" ELSE "failure"]
    /\ error' = [error EXCEPT ![op] = r.err]

week_1_get_s3_data ==
    /\ Ready("week_1", "get_s3_data")
    /\ LET file == open_file(source)
           r == IF file.err # "" THEN file ELSE csv_helper(file.v)
       IN  /\ Ends("get_s3_data", r)
           /\ stocks' = IF r.err = "" THEN Some(r.v) ELSE None
    /\ UNCHANGED <<variant, source, agg, redis, s3, puts>>

week_1_process_data ==
    /\ Ready("week_1", "process_data")
    /\ LET highest_stock == highest(stocks[1])
       IN  /\ Ends("process_data", highest_stock)
           /\ agg' = IF highest_stock.err # "" THEN None
                     ELSE Some([date |-> highest_stock.v.date,
                                high |-> highest_stock.v.high])
    /\ UNCHANGED <<variant, source, stocks, redis, s3, puts>>

\* week_1: the body is pass
week_1_put_redis_data ==
    /\ Ready("week_1", "put_redis_data")
    /\ Ends("put_redis_data", Return(None))
    /\ UNCHANGED <<variant, source, stocks, agg, redis, s3, puts>>

get_s3_data ==
    /\ Ready("week_2", "get_s3_data")
    /\ LET data == get_data(source)
           r == IF data.err # "" THEN data ELSE from_lists(data.v)
       IN  /\ Ends("get_s3_data", r)
           /\ stocks' = IF r.err = "" THEN Some(r.v) ELSE None
    /\ UNCHANGED <<variant, source, agg, redis, s3, puts>>

process_data ==
    /\ Ready("week_2", "process_data")
    /\ LET highest_stock == highest(stocks[1])
       IN  /\ Ends("process_data", highest_stock)
           /\ agg' = IF highest_stock.err # "" THEN None
                     ELSE Some([date |-> highest_stock.v.date,
                                high |-> highest_stock.v.high])
    /\ UNCHANGED <<variant, source, stocks, redis, s3, puts>>

\* Variant of put_redis_data: name and value exchanged.
put_redis_data_swapped ==
    /\ Ready("week_2", "put_redis_data")
    /\ \E accepted \in BOOLEAN :
         LET r == redis_put_data(redis, StrFloat(agg[1].high),
                                 StrDate(agg[1].date), accepted)
         IN  /\ Ends("put_redis_data", r)
             /\ redis' = IF r.err = "" THEN r.v ELSE redis
    /\ puts' = [puts EXCEPT !["redis"] = @ + 1]
    /\ UNCHANGED <<variant, source, stocks, agg, s3>>

\* Variant of put_redis_data: a rejected put is tried once more.
put_redis_data_retry ==
    /\ Ready("week_2", "put_redis_data")
    /\ \E accepted \in BOOLEAN, again \in BOOLEAN :
         LET first == redis_put_data(redis, StrDate(agg[1].date),
                                     StrFloat(agg[1].high), accepted)
             r == IF first.err = "" THEN first
                  ELSE redis_put_data(redis, StrDate(agg[1].date),
                                      StrFloat(agg[1].high), again)
         IN  /\ Ends("put_redis_data", r)
             /\ redis' = IF r.err = "" THEN r.v ELSE redis
             /\ puts' = [puts EXCEPT !["redis"] = @ + (IF first.err = "" THEN 1 ELSE 2)]
    /\ UNCHANGED <<variant, source, stocks, agg, s3>>

\* put_redis_data of week_2: redis.put_data(name=str(agg.date), value=str(agg.high))
put_redis_data ==
    /\ Ready("week_2", "put_redis_data")
    /\ \E accepted \in BOOLEAN :
         LET r == redis_put_data(redis, StrDate(agg[1].date),
                                 StrFloat(agg[1].high), accepted)
         IN  /\ Ends("put_redis_data", r)
             /\ redis' = IF r.err = "" THEN r.v ELSE redis
    /\ puts' = [puts EXCEPT !["redis"] = @ + 1]
    /\ UNCHANGED <<variant, source, stocks, agg, s3>>

\* Variant of put_s3_data: takes its input from put_redis_data.
put_s3_data_after_redis ==
    /\ Ready("week_2", "put_s3_data")
    /\ step["put_redis_data"] = "success"
    /\ \E accepted \in BOOLEAN :
         LET r == s3_put_data(s3, StrDate(agg[1].date), agg[1], accepted)
         IN  /\ Ends("put_s3_data", r)
             /\ s3' = IF r.err = "" THEN r.v ELSE s3
    /\ puts' = [puts EXCEPT !["s3"] = @ + 1]
    /\ UNCHANGED <<variant, source, stocks, agg, redis>>

\* Variant of put_s3_data: does not wait for process_data, and writes what
\* there is.
put_s3_data_eager ==
    /\ variant = "week_2"
    /\ step["put_s3_data"] = "pending"
    /\ \E accepted \in BOOLEAN :
         LET r == s3_put_data(s3, IF agg = None THEN <<>> ELSE StrDate(agg[1].date),
                              agg, accepted)
         IN  /\ Ends("put_s3_data", r)
             /\ s3' = IF r.err = "" THEN r.v ELSE s3
    /\ puts' = [puts EXCEPT !["s3"] = @ + 1]
    /\ UNCHANGED <<variant, source, stocks, agg, redis>>

\* put_s3_data: s3.put_data(key_name=str(agg.date), data=agg)
put_s3_data ==
    /\ Ready("week_2", "put_s3_data")
    /\ \E accepted \in BOOLEAN :
         LET r == s3_put_data(s3, StrDate(agg[1].date), agg[1], accepted)
         IN  /\ Ends("put_s3_data", r)
             /\ s3' = IF r.err = "" THEN r.v ELSE s3
    /\ puts' = [puts EXCEPT !["s3"] = @ + 1]
    /\ UNCHANGED <<variant, source, stocks, agg, redis>>

Next ==
    \/ week_1_get_s3_data
    \/ week_1_process_data
    \/ week_1_put_redis_data
    \/ get_s3_data
    \/ process_data
    \/ put_redis_data
    \/ put_s3_data

Spec == Init /\ [][Next]_vars

---------------------------------------------------------------------------
\* Vocabulary of the properties

Ran(op) == op \in DOMAIN step /\ step[op] # "pending"
Succeeded(op) == op \in DOMAIN step /\ step[op] = "success"
Failed(op) == op \in DOMAIN step /\ step[op] = "failure"

\* The run is reported as a success when every op of the pipeline succeeded.
RunSuccess == \A op \in DOMAIN step : step[op] = "success"

\* The rows of the source and the records read from them
RawRows == source[1]
Records == stocks[1]
Result == agg[1]

\* Record i attains the maximum high: its high is >= the high of every record,
\* with the comparisons of floats (no record does when a high is NaN).
AttainsMax(i) ==
    \A j \in 1..Len(Records) : FloatGE(Records[i].high, Records[j].high)

NoNaNHigh == \A j \in 1..Len(Records) : Records[j].high.cls # "nan"

\* process_data has returned the date and high of one record attaining the
\* maximum high.
ReturnsMaximum ==
    /\ Succeeded("process_data")
    /\ Len(agg) = 1
    /\ \E i \in 1..Len(Records) :
         /\ AttainsMax(i)
         /\ FloatEQ(Result.high, Records[i].high)
         /\ Result.date = Records[i].date

\* C1 as stated: for every non-empty sequence of records process_data returns
\* exactly one Aggregation, whose high is the maximum of the records' highs
\* and whose date is the date of a record with that high.
C1_AnySequence ==
    (Ran("process_data") /\ Records # <<>>) => ReturnsMaximum

\* C1, amended: the same for every non-empty sequence of records none of
\* whose high is NaN.
C1_HighIsMaximum ==
    (Ran("process_data") /\ Records # <<>> /\ NoNaNHigh) => ReturnsMaximum

\* The highs 105.0, 110.0, 103.0 on 2024-01-02, -03, -04 give (2024-01-03, 110.0).
C1_Witness ==
    /\ Succeeded("process_data")
    /\ source = Some(<<Row1, Row2, Row3>>)
    /\ Result = [date |-> [year |-> 2024, month |-> 1, day |-> 3],
                 high |-> Fin(1100)]

\* C2: when two or more records attain the maximum high, process_data returns
\* the date of the one at the lowest position.
C2_FirstMaximumWins ==
    Ran("process_data") =>
      LET top == {i \in 1..Len(Records) : AttainsMax(i)}
      IN  Cardinality(top) >= 2 =>
            /\ Succeeded("process_data")
            /\ \E i \in top :
                 /\ \A j \in top : i <= j
                 /\ Result.date = Records[i].date

\* Row4 and Row2 share the high 110.0; Row4 comes first and its date is returned.
C2_Witness ==
    /\ Succeeded("process_data")
    /\ source = Some(<<Row1, Row4, Row2>>)
    /\ Result.date = [year |-> 2024, month |-> 1, day |-> 5]

\* C3: given an empty sequence process_data fails with the error max() raises
\* for an empty argument (ValueError, the EmptyInputError kind) and produces no
\* Aggregation.
C3_EmptyInputFails ==
    (Ran("process_data") /\ Records = <<>>) =>
      /\ Failed("process_data")
      /\ error["process_data"] = "ValueError"
      /\ agg = None
      /\ ~RunSuccess

C3_Witness ==
    /\ source = Some(<<>>)
    /\ Failed("process_data")

\* C4: from_list maps a row by position: field 0 is the date, 1 close, 2 volume
\* (float, then int), 3 open, 4 high, 5 low; the row
\* 2024/01/02,100.0,500000.0,99.0,105.0,98.0 gives date 2024-01-02, close
\* 100.0, volume 500000, open 99.0, high 105.0, low 98.0.
C4_PositionalMapping ==
    Succeeded("get_s3_data") =>
      /\ Len(stocks) = 1
      /\ Len(Records) = Len(RawRows)
      /\ \A i \in 1..Len(RawRows) :
           LET row == RawRows[i]
               stock == Records[i]
           IN  /\ stock.date = strptime(row[1]).v
               /\ stock.close = float(row[2]).v
               /\ stock.volume = int(float(row[3]).v).v
               /\ stock.open = float(row[4]).v
               /\ stock.high = float(row[5]).v
               /\ stock.low = float(row[6]).v
               /\ row = Row1 =>
                    stock = [date |-> [year |-> 2024, month |-> 1, day |-> 2],
                             close |-> Fin(1000), volume |-> 500000,
                             open |-> Fin(990), high |-> Fin(1050),
                             low |-> Fin(980)]

C4_Witness ==
    /\ Succeeded("get_s3_data")
    /\ source = Some(<<Row2, Row1>>)
    /\ Records[2].volume = 500000

\* The first row of the source that from_list cannot parse, 0 if there is none.
FirstBadRow ==
    IF \E i \in 1..Len(RawRows) : from_list(RawRows[i]).err # ""
    THEN CHOOSE i \in 1..Len(RawRows) :
           /\ from_list(RawRows[i]).err # ""
           /\ \A j \in 1..(i - 1) : from_list(RawRows[j]).err = ""
    ELSE 0

\* C5: if any row of the source cannot be parsed, get_s3_data fails with that
\* row's error (a ValueError, IndexError or OverflowError of from_list, the
\* ParseError kind); it returns no
\* list, and process_data never runs on the rows before the bad one.
C5_BadRowAbortsRead ==
    (Ran("get_s3_data") /\ source # None /\ FirstBadRow # 0) =>
      /\ Failed("get_s3_data")
      /\ error["get_s3_data"] = from_list(RawRows[FirstBadRow]).err
      /\ error["get_s3_data"] \in {"ValueError", "IndexError", "OverflowError"}
      /\ stocks = None
      /\ ~Ran("process_data")
      /\ agg = None
      /\ ~RunSuccess

\* Two good rows precede the malformed close "abc".
C5_Witness ==
    /\ source = Some(<<Row1, Row2, RowBadClose>>)
    /\ Failed("get_s3_data")
    /\ error["get_s3_data"] = "ValueError"

\* The key and the value put_redis_data is to store for the result
ResultKey == StrDate(Result.date)
ResultValue == StrFloat(Result.high)

C7_NotBlocked ==
    /\ (Failed("put_redis_data") /\ step["put_s3_data"] = "pending")
         => ENABLED put_s3_data
    /\ (Failed("put_s3_data") /\ step["put_redis_data"] = "pending")
         => ENABLED put_redis_data

\* A writer that fails leaves what the other has written.
C7_NotUndone ==
    /\ (Succeeded("put_s3_data") /\ step["put_redis_data"] = "pending"
          /\ step'["put_redis_data"] = "failure")
         => (s3' = s3 /\ step'["put_s3_data"] = "success")
    /\ (Succeeded("put_redis_data") /\ step["put_s3_data"] = "pending"
          /\ step'["put_s3_data"] = "failure")
         => (redis' = redis /\ step'["put_redis_data"] = "success")

\* C7: in week_2_pipeline a writer that failed does not keep the other from
\* running, in either order, and does not undo what the other has written.
C7_WritersIndependent ==
    [](variant = "week_2" => C7_NotBlocked) /\ [][variant = "week_2" => C7_NotUndone]_vars

\* The cache write failed, the object-store write was made all the same.
C7_Witness ==
    /\ variant = "week_2"
    /\ Failed("put_redis_data")
    /\ Succeeded("put_s3_data")
    /\ ResultKey \in DOMAIN s3
    /\ s3[ResultKey] = Result

Writers == {<<"put_redis_data", "redis">>, <<"put_s3_data", "s3">>}

\* C8: in a run each writer calls put at most once (a writer of week_2 that
\* ran called it exactly once); a rejected put fails the writer's op with the
\* WriteError, and the run is then not a success.
C8_NoRetry ==
    \A w \in Writers :
      /\ puts[w[2]] <= 1
      /\ (variant = "week_2" /\ Ran(w[1])) => puts[w[2]] = 1
      /\ (puts[w[2]] = 1 /\ w[1] \in DOMAIN step) =>
           \/ /\ step[w[1]] = "success"
              /\ error[w[1]] = ""
           \/ /\ step[w[1]] = "failure"
              /\ error[w[1]] = "WriteError"
              /\ ~RunSuccess

C8_Witness ==
    /\ Failed("put_redis_data")
    /\ error["put_redis_data"] = "WriteError"
    /\ puts["redis"] = 1
    /\ redis = Empty

\* C9 as stated: every record read has a non-negative volume.
C9_VolumeNonNegative ==
    Succeeded("get_s3_data") =>
      \A i \in 1..Len(Records) : Records[i].volume >= 0

\* C9, amended: every record read has an integer volume, the value of field 2
\* rounded towards zero; it is non-negative exactly when that value is greater
\* than -1, and a value of -1 or less gives a negative volume.
C9_VolumeTruncated ==
    Succeeded("get_s3_data") =>
      \A i \in 1..Len(Records) :
        LET x == float(RawRows[i][3]).v
            volume == Records[i].volume
        IN  /\ volume \in Int
            /\ x.cls = "fin"
            /\ (volume >= 0) = (x.t > -10)
            /\ x.t >= 0 => (10 * volume <= x.t /\ x.t < 10 * volume + 10)
            /\ x.t < 0 => (10 * volume >= x.t /\ x.t > 10 * volume - 10)

\* "-5.5" is read as the volume -5, "-0.5" as 0.
C9_Witness ==
    /\ Succeeded("get_s3_data")
    /\ source = Some(<<RowNegVolume, RowNaNHigh>>)
    /\ Records[1].volume = -5
    /\ Records[2].volume = 0

\* C10: no put is issued and no store changes before process_data has returned
\* its result; process_data does not run before get_s3_data has returned the
\* list of all the rows; and when get_s3_data or process_data fails, no put is
\* issued and the run is not a success.
C10_StagesForward ==
    /\ \A w \in Writers :
         (puts[w[2]] > 0 \/ Ran(w[1])) => (Succeeded("process_data") /\ agg # None)
    /\ s3 # Empty => Succeeded("process_data")
    /\ Ran("process_data") =>
         /\ Succeeded("get_s3_data")
         /\ stocks # None
         /\ Len(Records) = Len(RawRows)
    /\ (Failed("get_s3_data") \/ Failed("process_data")) =>
         /\ puts = [sink \in {"redis", "s3"} |-> 0]
         /\ s3 = Empty
         /\ redis \in {Empty, Stale}
         /\ ~Ran("put_redis_data")
         /\ ~Ran("put_s3_data")
         /\ ~RunSuccess

C10_Witness ==
    /\ variant = "week_2"
    /\ RunSuccess
    /\ puts = [sink \in {"redis", "s3"} |-> 1]
    /\ Len(Records) = 3

====
